---------------------------- MODULE Spec2Model ----------------------------
(***************************************************************************)
(* Model of nonlinear_avoidance/arch_obstacle.py: the obstacle tree        *)
(* BlockArchObstacle (a networkx DiGraph over component indices, the list  *)
(* of local poses and the list of component obstacles, all sharing one     *)
(* tree pose) and the MultiObstacleContainer that aggregates trees.        *)
(*                                                                         *)
(* Python lists are sequences; a Python index i is position i + 1.         *)
(* An Optional value is a sequence of length at most one: <<>> is None.    *)
(* Lengths are in half-units so that the centre offsets of the arch        *)
(* ((axes_length - wall_width) * 0.5) stay integers; orientations are in   *)
(* quarter turns.                                                          *)
(***************************************************************************)
EXTENDS Integers, Sequences, FiniteSets, TLC

VARIABLES tree, container, ret

vars == <<tree, container, ret>>

(***************************************************************************)
(* Bounds of the model.                                                    *)
(***************************************************************************)
\* The components of a tree under every call in any order (Spec, SpecInsert),
\* the components of a tree under valid calls only (SpecBuild), and the
\* trees of a container (SpecContainer).
MaxComponents == 4
MaxBuildComponents == 5
MaxTrees == 3

(***************************************************************************)
(* Inputs.                                                                 *)
(***************************************************************************)
Vec(x, y) == <<x, y>>

MkPose(position, orientation) ==
    [position |-> position, orientation |-> orientation]

\* Pose(np.zeros(self.dimension), orientation=0.0)
ZeroPose == MkPose(Vec(0, 0), 0)

\* The tree poses a caller constructs a tree with or assigns to tree.pose.
TreePoses == {ZeroPose, MkPose(Vec(2, 0), 1)}

\* The poses a shape carries when it is handed to set_root / add_component
\* after construction: off the arch and turned.
ShapePoses == {MkPose(Vec(0, 4), 1)}

\* reference_position arguments of add_component: neither the reference
\* point a new Cuboid has nor the one of the arch's legs.
ReferencePositions == {Vec(0, 1)}

\* Query positions.
Positions == {Vec(0, -2), Vec(4, 0), Vec(0, 5)}

\* wall_width and axes_length of the arches the callers build
\* (0.4 and [3.0, 5] in the source, scaled to even integers).
WallWidth == 2
AxesLength == Vec(4, 6)

(***************************************************************************)
(* Pose and the primitive shape (external collaborators).                  *)
(***************************************************************************)
Abs(x) == IF x < 0 THEN -x ELSE x

Max2(a, b) == IF a >= b THEN a ELSE b

\* A vector rotated by q quarter turns.
Rotate(q, v) ==
    CASE q % 4 = 0 -> Vec(v[1], v[2])
      [] q % 4 = 1 -> Vec(-v[2], v[1])
      [] q % 4 = 2 -> Vec(-v[1], -v[2])
      [] q % 4 = 3 -> Vec(v[2], -v[1])

\* Pose.transform_pose_from_relative: the pose `pose`, given relative to the
\* frame `self`, expressed in the frame `self` is given in.  A new Pose.
TransformPoseFromRelative(self, pose) ==
    LET r == Rotate(self.orientation, pose.position)
    IN  MkPose(Vec(self.position[1] + r[1], self.position[2] + r[2]),
               self.orientation + pose.orientation)

\* A position given relative to the frame `self`, in the frame `self` is
\* given in.
TransformPositionFromRelative(self, position) ==
    LET r == Rotate(self.orientation, position)
    IN  Vec(self.position[1] + r[1], self.position[2] + r[2])

\* Cuboid(axes_length=..., pose=...): reference point at the local origin,
\* no attribute `shape`.
Cuboid(axes_length, pose) ==
    [axes_length |-> axes_length, pose |-> pose,
     reference_point |-> Vec(0, 0), shape |-> <<>>]

\* obstacle.set_reference_point(reference_position, in_global_frame=False)
SetReferencePoint(obstacle, reference_position) ==
    [obstacle EXCEPT !.reference_point = reference_position]

\* Cuboid.get_gamma(position, in_global_frame=True): 1 on the surface,
\* below 1 inside, growing with the distance outside.  It reads the
\* obstacle's pose.
ObstacleGetGamma(obstacle, position) ==
    LET d == Vec(position[1] - obstacle.pose.position[1],
                 position[2] - obstacle.pose.position[2])
        l == Rotate(4 - (obstacle.pose.orientation % 4), d)
    IN  1 + Max2(2 * Abs(l[1]) - obstacle.axes_length[1],
                 2 * Abs(l[2]) - obstacle.axes_length[2])

(***************************************************************************)
(* Python list and networkx DiGraph primitives.                            *)
(***************************************************************************)
\* list[i] for a Python index i >= 0.
At(list, i) == list[i + 1]

\* The indices of a Python list.
Indices(list) == 0 .. (Len(list) - 1)

\* A DiGraph: `nodes` maps each node to its attribute dict, `pred` maps
\* each node to its predecessors in insertion order.  An attribute the
\* dict does not hold is <<>>.
EmptyGraph == [nodes |-> <<>>, pred |-> <<>>]

GraphNodes(graph) == DOMAIN graph.nodes

\* graph.add_node(n, **attr): a new node gets the attributes; an existing
\* node has the named attributes overwritten and keeps its edges.
AddNode(graph, n, local_reference, set_local_reference) ==
    LET old == IF n \in GraphNodes(graph)
               THEN graph.nodes[n]
               ELSE [local_reference |-> <<>>, indeces_children |-> <<>>,
                     references_children |-> <<>>]
        new == [local_reference |->
                    IF set_local_reference THEN <<local_reference>>
                    ELSE old.local_reference,
                indeces_children |-> <<>>,
                references_children |-> <<>>]
    IN  [nodes |-> [m \in GraphNodes(graph) \cup {n} |->
                        IF m = n THEN new ELSE graph.nodes[m]],
         pred |-> [m \in GraphNodes(graph) \cup {n} |->
                        IF m \in GraphNodes(graph) THEN graph.pred[m] ELSE <<>>]]

\* graph.nodes[n]["indeces_children"].append(c), n a node of the graph.
AppendChild(graph, n, c) ==
    [graph EXCEPT !.nodes[n].indeces_children = Append(@, c)]

\* graph.add_edge(u, v), u and v nodes of the graph.
AddEdge(graph, u, v) ==
    IF \E k \in 1 .. Len(graph.pred[v]) : graph.pred[v][k] = u
    THEN graph
    ELSE [graph EXCEPT !.pred[v] = Append(@, u)]

\* list(graph.predecessors(n))
Predecessors(graph, n) == graph.pred[n]

\* The edges of the graph, parent -> child.
Edges(graph) ==
    {e \in GraphNodes(graph) \X GraphNodes(graph) :
        \E k \in 1 .. Len(graph.pred[e[2]]) : graph.pred[e[2]][k] = e[1]}

(***************************************************************************)
(* BlockArchObstacle.                                                      *)
(***************************************************************************)
\* The fields __init__ sets before it inserts the first component.
EmptyTree(axes_length, pose) ==
    [pose |-> pose, axes_length |-> axes_length, graph |-> EmptyGraph,
     local_poses |-> <<>>, obstacle_list |-> <<>>, root_idx |-> 0]

n_components(t) == Len(t.obstacle_list)

root_idx(t) == t.root_idx

\* PlaceComponent with the composition left out: the component keeps the
\* pose it was handed in with.
PlaceComponentLocal(t, obstacle) == obstacle

\* The component as set_root / add_component stores it: its pose replaced
\* by the tree pose composed with the pose it carried.
PlaceComponent(t, obstacle) ==
    [obstacle EXCEPT !.pose = TransformPoseFromRelative(t.pose, obstacle.pose)]

\* set_root(obstacle): never raises.
set_root(t, obstacle) ==
    [t EXCEPT !.local_poses = Append(@, obstacle.pose),
              !.obstacle_list = Append(@, PlaceComponent(t, obstacle)),
              !.graph = AddNode(@, 0, Vec(0, 0), FALSE)]

\* LinkComponent with the edge drawn from the child to the parent.
LinkComponentReversed(graph, parent_ind, new_id) ==
    AddEdge(AppendChild(graph, parent_ind, new_id), new_id, parent_ind)

\* The graph of add_component once parent_ind names a node of it.
LinkComponent(graph, parent_ind, new_id) ==
    AddEdge(AppendChild(graph, parent_ind, new_id), parent_ind, new_id)

\* add_component(obstacle, reference_position, parent_ind): the tree it
\* leaves and how it ends.  The lookup of the parent's node comes after the
\* component and its node are stored, and raises KeyError for a missing node.
add_component(t, obstacle, reference_position, parent_ind) ==
    LET new_id == Len(t.obstacle_list)
        placed == PlaceComponent(t, SetReferencePoint(obstacle, reference_position))
        stored == [t EXCEPT !.local_poses = Append(@, obstacle.pose),
                            !.obstacle_list = Append(@, placed),
                            !.graph = AddNode(@, new_id, reference_position, TRUE)]
    IN  IF parent_ind \in GraphNodes(stored.graph)
        THEN [tree |-> [stored EXCEPT
                            !.graph = LinkComponent(@, parent_ind, new_id)],
              status |-> "ok"]
        ELSE [tree |-> stored, status |-> "KeyError"]

\* __init__(wall_width, axes_length, pose): the root wall and the two legs,
\* both children of the root.
BlockArchObstacle(wall_width, axes_length, pose) ==
    LET delta_pos == Vec((axes_length[1] - wall_width) \div 2,
                         (axes_length[2] - wall_width) \div 2)
        t0 == set_root(EmptyTree(axes_length, pose),
                       Cuboid(Vec(wall_width, axes_length[2]), ZeroPose))
        t1 == add_component(t0,
                            Cuboid(Vec(axes_length[1], wall_width),
                                   MkPose(delta_pos, 0)),
                            Vec(-delta_pos[1], 0), 0).tree
    IN  add_component(t1,
                      Cuboid(Vec(axes_length[1], wall_width),
                             MkPose(Vec(delta_pos[1], -delta_pos[2]), 0)),
                      Vec(-delta_pos[1], 0), 0).tree

\* NpMin with the comparison turned round: the largest element.
RECURSIVE NpMax(_)
NpMax(gammas) ==
    IF Len(gammas) = 1 THEN gammas[1]
    ELSE LET rest == NpMax(Tail(gammas))
         IN  IF gammas[1] >= rest THEN gammas[1] ELSE rest

\* np.min / min over a list of numbers; the list is not empty.
RECURSIVE NpMin(_)
NpMin(gammas) ==
    IF Len(gammas) = 1 THEN gammas[1]
    ELSE LET rest == NpMin(Tail(gammas))
         IN  IF gammas[1] <= rest THEN gammas[1] ELSE rest

\* The list of the components' gammas, in list order.
ComponentGammas(t, position) ==
    [k \in 1 .. Len(t.obstacle_list) |->
        ObstacleGetGamma(t.obstacle_list[k], position)]

\* get_gamma(position, in_global_frame=True); np.min of an empty list raises.
get_gamma(t, position) ==
    LET gammas == ComponentGammas(t, position)
    IN  IF Len(gammas) = 0
        THEN [status |-> "ValueError", value |-> <<>>]
        ELSE [status |-> "ok", value |-> <<NpMin(gammas)>>]

\* get_gamma(position, in_global_frame=False): the position, an array, is
\* handed to Pose.transform_pose_from_relative, which is written for a Pose.
\* Either that call raises on the array (transform_raises) or the position
\* comes back transformed and the components' minimum is computed at it.
\* No branch of the method raises for the frame itself.
get_gamma_local(t, position, transform_raises) ==
    IF transform_raises
    THEN [status |-> "AttributeError", value |-> <<>>]
    ELSE get_gamma(t, TransformPositionFromRelative(t.pose, position))

\* get_parent_idx that answers with the component inserted just before.
get_parent_idx_previous(t, idx_obs) ==
    IF idx_obs = root_idx(t)
    THEN [status |-> "ok", value |-> <<>>]
    ELSE IF idx_obs \in GraphNodes(t.graph)
            /\ Len(Predecessors(t.graph, idx_obs)) > 0
         THEN [status |-> "ok", value |-> <<idx_obs - 1>>]
         ELSE [status |-> "breakpoint", value |-> <<>>]

\* get_parent_idx(idx_obs): None for the root; else the first predecessor.
\* A lookup that raises (no such node, no predecessor) is caught by the bare
\* except, which stops in the debugger; the function then returns None.
get_parent_idx(t, idx_obs) ==
    IF idx_obs = root_idx(t)
    THEN [status |-> "ok", value |-> <<>>]
    ELSE IF idx_obs \in GraphNodes(t.graph)
            /\ Len(Predecessors(t.graph, idx_obs)) > 0
         THEN [status |-> "ok", value |-> <<Predecessors(t.graph, idx_obs)[1]>>]
         ELSE [status |-> "breakpoint", value |-> <<>>]

\* get_component(idx_obs): Python list indexing, a negative index counting
\* from the end.
get_component(t, idx_obs) ==
    LET n == Len(t.obstacle_list)
    IN  IF 0 <= idx_obs /\ idx_obs < n
        THEN [status |-> "ok", value |-> <<At(t.obstacle_list, idx_obs)>>]
        ELSE IF -n <= idx_obs /\ idx_obs < 0
        THEN [status |-> "ok", value |-> <<At(t.obstacle_list, n + idx_obs)>>]
        ELSE [status |-> "IndexError", value |-> <<>>]

\* update_obstacles that also stores the composed pose as the local pose.
update_obstacles_overwrite(t) ==
    [t EXCEPT !.local_poses =
                  [k \in 1 .. Len(t.local_poses) |->
                      TransformPoseFromRelative(t.pose, t.local_poses[k])],
              !.obstacle_list =
                  [k \in 1 .. Len(t.obstacle_list) |->
                      IF k <= Len(t.local_poses)
                      THEN [t.obstacle_list[k] EXCEPT
                              !.shape = <<TransformPoseFromRelative(
                                              t.pose, t.local_poses[k])>>]
                      ELSE t.obstacle_list[k]]]

\* update_obstacles(delta_time): every component paired with its local pose
\* has its attribute `shape` assigned; its pose is not written.
update_obstacles(t) ==
    [t EXCEPT !.obstacle_list =
        [k \in 1 .. Len(t.obstacle_list) |->
            IF k <= Len(t.local_poses)
            THEN [t.obstacle_list[k] EXCEPT
                    !.shape = <<TransformPoseFromRelative(t.pose, t.local_poses[k])>>]
            ELSE t.obstacle_list[k]]]

\* is_in_free_space(position, in_global_frame=True) of a member tree.
TreeIsInFreeSpace(t, position) == get_gamma(t, position).value[1] >= 1

(***************************************************************************)
(* MultiObstacleContainer.                                                 *)
(***************************************************************************)
\* container_get_gamma whose loop stops one tree early: the last slot of
\* the array keeps the 0 of np.zeros.
container_get_gamma_short(obstacle_list, position) ==
    LET gammas == [oo \in 1 .. Len(obstacle_list) |->
                       IF oo < Len(obstacle_list)
                       THEN get_gamma(obstacle_list[oo], position).value[1]
                       ELSE 0]
    IN  IF Len(gammas) = 0
        THEN [status |-> "ValueError", value |-> <<>>]
        ELSE [status |-> "ok", value |-> <<NpMin(gammas)>>]

\* container_get_gamma that answers 0 for no trees (a minimum with a
\* default) instead of raising.
container_get_gamma_default(obstacle_list, position) ==
    LET gammas == [oo \in 1 .. Len(obstacle_list) |->
                       get_gamma(obstacle_list[oo], position).value[1]]
    IN  IF Len(gammas) = 0
        THEN [status |-> "ok", value |-> <<0>>]
        ELSE [status |-> "ok", value |-> <<NpMin(gammas)>>]

\* get_gamma(position, in_global_frame=True): the trees' gammas are stored
\* in an array of the list's length; min of an empty array raises.
container_get_gamma(obstacle_list, position) ==
    LET gammas == [oo \in 1 .. Len(obstacle_list) |->
                       get_gamma(obstacle_list[oo], position).value[1]]
    IN  IF Len(gammas) = 0
        THEN [status |-> "ValueError", value |-> <<>>]
        ELSE [status |-> "ok", value |-> <<NpMin(gammas)>>]

\* FreeSpaceLoop without the early return: every tree is asked.
RECURSIVE FreeSpaceLoopAll(_, _, _, _)
FreeSpaceLoopAll(obstacle_list, position, k, calls) ==
    IF k > Len(obstacle_list)
    THEN [status |-> "ok",
          value |-> <<\A j \in 1 .. Len(obstacle_list) :
                        TreeIsInFreeSpace(obstacle_list[j], position)>>,
          calls |-> calls]
    ELSE FreeSpaceLoopAll(obstacle_list, position, k + 1, Append(calls, k - 1))

\* The loop of is_in_free_space from list position k on; `calls` are the
\* list indices of the trees whose is_in_free_space has been called.
RECURSIVE FreeSpaceLoop(_, _, _, _)
FreeSpaceLoop(obstacle_list, position, k, calls) ==
    IF k > Len(obstacle_list)
    THEN [status |-> "ok", value |-> <<TRUE>>, calls |-> calls]
    ELSE IF TreeIsInFreeSpace(obstacle_list[k], position)
         THEN FreeSpaceLoop(obstacle_list, position, k + 1, Append(calls, k - 1))
         ELSE [status |-> "ok", value |-> <<FALSE>>,
               calls |-> Append(calls, k - 1)]

\* is_in_free_space computed from the container's get_gamma.
container_is_in_free_space_by_gamma(obstacle_list, position) ==
    LET r == container_get_gamma(obstacle_list, position)
    IN  IF r.status # "ok"
        THEN [status |-> r.status, value |-> <<>>, calls |-> <<>>]
        ELSE [status |-> "ok", value |-> <<r.value[1] >= 1>>,
              calls |-> [k \in 1 .. Len(obstacle_list) |-> k - 1]]

\* is_in_free_space(position, in_global_frame=True)
container_is_in_free_space(obstacle_list, position) ==
    FreeSpaceLoop(obstacle_list, position, 1, <<>>)

\* get_gamma(position, in_global_frame) with the frame test left out.
container_get_gamma_any_frame(obstacle_list, position, in_global_frame) ==
    LET r == container_get_gamma(obstacle_list, position)
    IN  [status |-> r.status, value |-> r.value,
         calls |-> [k \in 1 .. Len(obstacle_list) |-> k - 1]]

\* get_gamma(position, in_global_frame): the frame is tested before any tree
\* is asked; `calls` are the list indices of the trees whose get_gamma has
\* been called.
container_get_gamma_frame(obstacle_list, position, in_global_frame) ==
    IF ~in_global_frame
    THEN [status |-> "NotImplementedError", value |-> <<>>, calls |-> <<>>]
    ELSE LET r == container_get_gamma(obstacle_list, position)
         IN  [status |-> r.status, value |-> r.value,
              calls |-> [k \in 1 .. Len(obstacle_list) |-> k - 1]]

\* is_in_free_space(position, in_global_frame): the frame is tested before
\* the loop.
container_is_in_free_space_frame(obstacle_list, position, in_global_frame) ==
    IF ~in_global_frame
    THEN [status |-> "NotImplementedError", value |-> <<>>, calls |-> <<>>]
    ELSE container_is_in_free_space(obstacle_list, position)

\* container_append that puts the tree in front.
container_append_front(obstacle_list, obstacle) == <<obstacle>> \o obstacle_list

\* append(obstacle)
container_append(obstacle_list, obstacle) == Append(obstacle_list, obstacle)

\* The trees a list iterator that stands at index i still yields, after
\* those in `yielded`.
RECURSIVE IterYield(_, _, _)
IterYield(obstacle_list, i, yielded) ==
    IF i >= Len(obstacle_list) THEN yielded
    ELSE IterYield(obstacle_list, i + 1, Append(yielded, At(obstacle_list, i)))

\* __iter__(): a new list iterator, at index 0; the trees it yields.
container_iter(obstacle_list) == IterYield(obstacle_list, 0, <<>>)

\* __len__()
container_len(obstacle_list) == Len(obstacle_list)

(***************************************************************************)
(* State: one tree built by the arch constructor and then used through its *)
(* public methods, one container, and the last call with its outcome.      *)
(***************************************************************************)
\* The shapes handed to set_root / add_component.
ShapeInputs == {Cuboid(Vec(2, 2), p) : p \in ShapePoses}

\* parent_ind arguments: every index of the tree, one below and two above.
ParentInputs(t) == -1 .. (n_components(t) + 1)

\* idx_obs arguments of get_parent_idx / get_component.
IndexInputs(t) == -1 .. n_components(t)

NoCall ==
    [op |-> "none", status |-> "ok", index |-> <<>>, position |-> <<>>,
     obstacle |-> <<>>, reference_position |-> <<>>, value |-> <<>>,
     calls |-> <<>>]

Init ==
    /\ tree \in {BlockArchObstacle(WallWidth, AxesLength, pose) : pose \in TreePoses}
    /\ container = <<>>
    /\ ret = NoCall

\* tree.set_root(obstacle)
SetRoot(obstacle) ==
    /\ tree' = set_root(tree, obstacle)
    /\ ret' = [NoCall EXCEPT !.op = "set_root", !.obstacle = <<obstacle>>]
    /\ UNCHANGED container

\* tree.add_component(obstacle, reference_position, parent_ind)
AddComponent(obstacle, reference_position, parent_ind) ==
    LET r == add_component(tree, obstacle, reference_position, parent_ind)
    IN  /\ tree' = r.tree
        /\ ret' = [NoCall EXCEPT !.op = "add_component", !.status = r.status,
                                 !.obstacle = <<obstacle>>,
                                 !.reference_position = <<reference_position>>,
                                 !.index = <<parent_ind>>]
        /\ UNCHANGED container

\* The pose driver moves the tree: it writes the tree's pose.
SetPose(pose) ==
    /\ pose # tree.pose
    /\ tree' = [tree EXCEPT !.pose = pose]
    /\ ret' = [NoCall EXCEPT !.op = "set_pose"]
    /\ UNCHANGED container

\* tree.update_obstacles(delta_time)
UpdateObstacles ==
    /\ tree' = update_obstacles(tree)
    /\ ret' = [NoCall EXCEPT !.op = "update_obstacles"]
    /\ UNCHANGED container

\* get_gamma that refreshes the components before it evaluates them.
TreeGetGammaUpdating(position) ==
    LET r == get_gamma(update_obstacles(tree), position)
    IN  /\ tree' = update_obstacles(tree)
        /\ ret' = [NoCall EXCEPT !.op = "get_gamma", !.status = r.status,
                                 !.position = <<position>>, !.value = r.value]
        /\ UNCHANGED container

\* tree.get_gamma(position, in_global_frame=True)
TreeGetGamma(position) ==
    LET r == get_gamma(tree, position)
    IN  /\ ret' = [NoCall EXCEPT !.op = "get_gamma", !.status = r.status,
                                 !.position = <<position>>, !.value = r.value]
        /\ UNCHANGED <<tree, container>>

\* tree.get_gamma(position, in_global_frame=False)
TreeGetGammaLocal(position, transform_raises) ==
    LET r == get_gamma_local(tree, position, transform_raises)
    IN  /\ ret' = [NoCall EXCEPT !.op = "get_gamma_local", !.status = r.status,
                                 !.position = <<position>>, !.value = r.value]
        /\ UNCHANGED <<tree, container>>

\* tree.get_parent_idx(idx_obs)
GetParentIdx(idx_obs) ==
    LET r == get_parent_idx(tree, idx_obs)
    IN  /\ ret' = [NoCall EXCEPT !.op = "get_parent_idx", !.status = r.status,
                                 !.index = <<idx_obs>>, !.value = r.value]
        /\ UNCHANGED <<tree, container>>

\* tree.get_component(idx_obs)
GetComponent(idx_obs) ==
    LET r == get_component(tree, idx_obs)
    IN  /\ ret' = [NoCall EXCEPT !.op = "get_component", !.status = r.status,
                                 !.index = <<idx_obs>>, !.value = r.value]
        /\ UNCHANGED <<tree, container>>

\* container.append(BlockArchObstacle(wall_width, axes_length, pose))
ContainerAppend(pose) ==
    /\ Len(container) < MaxTrees
    /\ container' = container_append(container,
                        BlockArchObstacle(WallWidth, AxesLength, pose))
    /\ ret' = [NoCall EXCEPT !.op = "container.append",
                             !.obstacle =
                                 <<BlockArchObstacle(WallWidth, AxesLength, pose)>>]
    /\ UNCHANGED tree

\* container.get_gamma(position, in_global_frame=False)
ContainerGetGammaLocal(position) ==
    LET r == container_get_gamma_frame(container, position, FALSE)
    IN  /\ ret' = [NoCall EXCEPT !.op = "container.get_gamma_local",
                                 !.status = r.status,
                                 !.position = <<position>>, !.value = r.value,
                                 !.calls = r.calls]
        /\ UNCHANGED <<tree, container>>

\* container.is_in_free_space(position, in_global_frame=False)
ContainerIsInFreeSpaceLocal(position) ==
    LET r == container_is_in_free_space_frame(container, position, FALSE)
    IN  /\ ret' = [NoCall EXCEPT !.op = "container.is_in_free_space_local",
                                 !.status = r.status,
                                 !.position = <<position>>, !.value = r.value,
                                 !.calls = r.calls]
        /\ UNCHANGED <<tree, container>>

\* list(container): __iter__ and the iterator run to its end.
ContainerIter ==
    /\ ret' = [NoCall EXCEPT !.op = "container.__iter__",
                             !.value = <<container_iter(container)>>]
    /\ UNCHANGED <<tree, container>>

\* len(container)
ContainerLen ==
    /\ ret' = [NoCall EXCEPT !.op = "container.__len__",
                             !.value = <<container_len(container)>>]
    /\ UNCHANGED <<tree, container>>

\* container.get_gamma(position, in_global_frame=True)
ContainerGetGamma(position) ==
    LET r == container_get_gamma(container, position)
    IN  /\ ret' = [NoCall EXCEPT !.op = "container.get_gamma",
                                 !.status = r.status,
                                 !.position = <<position>>, !.value = r.value]
        /\ UNCHANGED <<tree, container>>

\* container.is_in_free_space(position, in_global_frame=True)
ContainerIsInFreeSpace(position) ==
    LET r == container_is_in_free_space(container, position)
    IN  /\ ret' = [NoCall EXCEPT !.op = "container.is_in_free_space",
                                 !.status = r.status,
                                 !.position = <<position>>, !.value = r.value,
                                 !.calls = r.calls]
        /\ UNCHANGED <<tree, container>>

TreeQueries ==
    \/ \E position \in Positions : TreeGetGamma(position)
    \/ \E position \in Positions, transform_raises \in BOOLEAN :
          TreeGetGammaLocal(position, transform_raises)
    \/ \E idx_obs \in IndexInputs(tree) : GetParentIdx(idx_obs)
    \/ \E idx_obs \in IndexInputs(tree) : GetComponent(idx_obs)

Inserts ==
    \/ /\ n_components(tree) < MaxComponents
       /\ \E obstacle \in ShapeInputs : SetRoot(obstacle)
    \/ /\ n_components(tree) < MaxComponents
       /\ \E obstacle \in ShapeInputs,
             reference_position \in ReferencePositions,
             parent_ind \in ParentInputs(tree) :
               AddComponent(obstacle, reference_position, parent_ind)

PoseUpdates ==
    \/ \E pose \in TreePoses : SetPose(pose)
    \/ UpdateObstacles

Next ==
    \/ Inserts
    \/ PoseUpdates
    \/ TreeQueries

\* The tree under every public operation, in any order, with any argument.
Spec == Init /\ [][Next]_vars

NextInsert ==
    \/ Inserts
    \/ TreeQueries

\* The tree under set_root, add_component and the queries: its pose stays
\* the one it was constructed with.
SpecInsert == Init /\ [][NextInsert]_vars

NextBuild ==
    \/ /\ n_components(tree) < MaxBuildComponents
       /\ \E obstacle \in ShapeInputs,
             reference_position \in ReferencePositions,
             parent_ind \in Indices(tree.obstacle_list) :
               AddComponent(obstacle, reference_position, parent_ind)
    \/ PoseUpdates

\* The tree as a builder uses it: the constructor's set_root, then
\* add_component with the index of an existing component as the parent,
\* and pose updates.
SpecBuild == Init /\ [][NextBuild]_vars

NextContainer ==
    \/ \E pose \in TreePoses : ContainerAppend(pose)
    \/ \E position \in Positions : ContainerGetGamma(position)
    \/ \E position \in Positions : ContainerIsInFreeSpace(position)
    \/ \E position \in Positions : ContainerGetGammaLocal(position)
    \/ \E position \in Positions : ContainerIsInFreeSpaceLocal(position)
    \/ ContainerIter
    \/ ContainerLen

\* The container: trees are appended and the container is queried.
SpecContainer == Init /\ [][NextContainer]_vars

NextQueries ==
    \/ PoseUpdates
    \/ TreeQueries
    \/ NextContainer

\* A constructed tree and a container side by side: the tree is moved and
\* updated, trees are appended to the container, and both are queried, in
\* any order.
SpecQueries == Init /\ [][NextQueries]_vars

(***************************************************************************)
(* Properties.                                                             *)
(***************************************************************************)
\* The parents of node c in the graph.
ParentsOf(graph, c) == {p \in GraphNodes(graph) : <<p, c>> \in Edges(graph)}

\* The nodes reached from the set S by following edges backwards, k times.
RECURSIVE AncestorsWithin(_, _, _)
AncestorsWithin(graph, S, k) ==
    IF k = 0 THEN S
    ELSE AncestorsWithin(graph,
                         S \cup UNION {ParentsOf(graph, c) : c \in S}, k - 1)

\* Every node some path of at least one edge leads to c from.
Ancestors(graph, c) ==
    AncestorsWithin(graph, ParentsOf(graph, c), Cardinality(GraphNodes(graph)))

\* Every component's pose is the tree pose composed with its local pose.
PosesFollowTree(t) ==
    /\ Len(t.local_poses) = Len(t.obstacle_list)
    /\ \A k \in 1 .. Len(t.obstacle_list) :
          t.obstacle_list[k].pose =
              TransformPoseFromRelative(t.pose, t.local_poses[k])

\* C1: in a tree built by the constructor's set_root and add_component calls
\* with existing components as parents, node 0 is the only node without a
\* parent, every other node has exactly one parent, and no node is its own
\* ancestor.
C1_SingleRootedTree ==
    LET graph == tree.graph
    IN  /\ {c \in GraphNodes(graph) : ParentsOf(graph, c) = {}} = {0}
        /\ \A c \in GraphNodes(graph) \ {0} :
              Cardinality(ParentsOf(graph, c)) = 1
        /\ \A c \in GraphNodes(graph) : c \notin Ancestors(graph, c)

\* C1 witness: five components, the last one two levels below a leg.
C1_Witness ==
    /\ ret.op = "add_component"
    /\ n_components(tree) = 5
    /\ ParentsOf(tree.graph, 4) = {3}
    /\ ParentsOf(tree.graph, 3) = {1}

\* C2: after update_obstacles every component's global pose is the tree's
\* current pose composed with the component's local pose.
C2_UpdateMovesComponents ==
    ret.op = "update_obstacles" => PosesFollowTree(tree)

\* C3: in every state reached by set_root and add_component each stored
\* component's pose is the tree pose composed with its local pose, and the
\* local pose of the component just inserted is the pose it was handed in with.
C3_InsertedPoseIsComposed ==
    /\ PosesFollowTree(tree)
    /\ ret.op \in {"set_root", "add_component"} =>
          tree.local_poses[Len(tree.local_poses)] = ret.obstacle[1].pose

\* C3 witness: a component inserted by add_component into a tree whose pose
\* is not the identity.
C3_Witness ==
    /\ ret.op = "add_component"
    /\ ret.status = "ok"
    /\ tree.pose # ZeroPose
    /\ tree.obstacle_list[4].pose # tree.local_poses[4]

\* C4: the value of tree.get_gamma(position) is the gamma of some component
\* at that position and no component has a smaller one.
C4_TreeGammaIsMinimum ==
    ret.op = "get_gamma" =>
        /\ ret.status = "ok"
        /\ \E k \in 1 .. Len(tree.obstacle_list) :
              ret.value[1] = ObstacleGetGamma(tree.obstacle_list[k], ret.position[1])
        /\ \A k \in 1 .. Len(tree.obstacle_list) :
              ret.value[1] <= ObstacleGetGamma(tree.obstacle_list[k], ret.position[1])

\* C4 witness: a query whose minimum is the gamma of the fourth component
\* alone.
C4_Witness ==
    /\ ret.op = "get_gamma"
    /\ n_components(tree) = 4
    /\ \A k \in 1 .. 3 :
          ret.value[1] < ObstacleGetGamma(tree.obstacle_list[k], ret.position[1])

\* C5: on a container that holds a tree, the value of
\* container.get_gamma(position) is the get_gamma of some member tree at that
\* position and no member tree has a smaller one.
C5_ContainerGammaIsMinimum ==
    (ret.op = "container.get_gamma" /\ Len(container) > 0) =>
        /\ ret.status = "ok"
        /\ \E k \in 1 .. Len(container) :
              ret.value = get_gamma(container[k], ret.position[1]).value
        /\ \A k \in 1 .. Len(container) :
              ret.value[1] <= get_gamma(container[k], ret.position[1]).value[1]

\* C5 witness: three trees, the minimum below the first tree's gamma.
C5_Witness ==
    /\ ret.op = "container.get_gamma"
    /\ Len(container) = 3
    /\ ret.value[1] < get_gamma(container[1], ret.position[1]).value[1]
    /\ ret.value[1] < get_gamma(container[3], ret.position[1]).value[1]

\* C6: container.is_in_free_space(position) is true exactly when every member
\* tree is free at the position; the trees are asked in list order, and a
\* tree that reports occupied is the last one asked.
C6_FreeSpaceFoldShortCircuits ==
    ret.op = "container.is_in_free_space" =>
        /\ ret.status = "ok"
        /\ ret.value[1] = (\A k \in 1 .. Len(container) :
                              TreeIsInFreeSpace(container[k], ret.position[1]))
        /\ Len(ret.calls) <= Len(container)
        /\ \A i \in 1 .. Len(ret.calls) : ret.calls[i] = i - 1
        /\ \A i \in 1 .. Len(ret.calls) :
              ~TreeIsInFreeSpace(container[ret.calls[i] + 1], ret.position[1])
                  => i = Len(ret.calls)
        /\ ret.value[1] => Len(ret.calls) = Len(container)

\* C6 witness: three trees, the second reports occupied and the third is
\* not asked.
C6_Witness ==
    /\ ret.op = "container.is_in_free_space"
    /\ Len(container) = 3
    /\ ret.calls = <<0, 1>>
    /\ ret.value = <<FALSE>>

\* C7: add_component with a parent index at or above the number of
\* components fails.
C7_ParentBeyondCountFails ==
    [][(/\ ret'.op = "add_component"
        /\ n_components(tree) >= 1
        /\ ret'.index[1] >= n_components(tree))
            => ret'.status # "ok"]_vars

\* C8: an add_component call that fails leaves the tree as it was.
C8_FailedAddLeavesTree ==
    [][(ret'.op = "add_component" /\ ret'.status # "ok") => tree' = tree]_vars

\* C9: set_root on a tree that holds a component fails and leaves the tree
\* as it was.
C9_SecondSetRootFails ==
    [][(ret'.op = "set_root" /\ n_components(tree) >= 1)
            => (ret'.status # "ok" /\ tree' = tree)]_vars

\* C10: get_parent_idx answers None for the root; for the component an
\* add_component call has just inserted it answers the parent index of that
\* call, and no later call changes its answer for a component that has one.
C10_ParentIsTheOnePassed ==
    [][/\ get_parent_idx(tree', 0) = [status |-> "ok", value |-> <<>>]
       /\ (ret'.op = "add_component" /\ ret'.status = "ok") =>
              get_parent_idx(tree', n_components(tree)) =
                  [status |-> "ok", value |-> ret'.index]
       /\ \A i \in 1 .. (n_components(tree) - 1) :
              get_parent_idx(tree, i).status = "ok" =>
                  get_parent_idx(tree', i) = get_parent_idx(tree, i)]_vars

\* C10 witness: get_parent_idx(3) answers 1 for a component inserted under
\* component 1.
C10_Witness ==
    /\ ret.op = "get_parent_idx"
    /\ ret.index = <<3>>
    /\ ret.status = "ok"
    /\ ret.value = <<1>>

\* C11: get_parent_idx and get_component called with an index that is not one
\* of 0 .. n-1 end in an error: they neither answer nor stop in the debugger.
C11_IndexOutOfRangeFails ==
    (/\ ret.op \in {"get_parent_idx", "get_component"}
     /\ ret.index[1] \notin Indices(tree.obstacle_list))
        => ret.status \notin {"ok", "breakpoint"}

\* C12: a get_gamma query on a tree in the local frame is rejected with the
\* error for an unsupported frame (the NotImplementedError the container
\* raises) and computes no value.
C12_TreeLocalFrameRejected ==
    ret.op = "get_gamma_local" =>
        (ret.status = "NotImplementedError" /\ ret.value = <<>>)

\* C13: a get_gamma or is_in_free_space query on a container in the local
\* frame raises NotImplementedError, returns nothing, asks no member tree
\* and leaves the container as it was.
C13_ContainerLocalFrameRejected ==
    [][ret'.op \in {"container.get_gamma_local",
                    "container.is_in_free_space_local"} =>
            /\ ret'.status = "NotImplementedError"
            /\ ret'.value = <<>>
            /\ ret'.calls = <<>>
            /\ container' = container]_vars

\* C13 witness: a local-frame get_gamma on a container of three trees was
\* rejected.
C13_Witness ==
    /\ ret.op = "container.get_gamma_local"
    /\ ret.status = "NotImplementedError"
    /\ Len(container) = 3

\* C14: get_gamma on a container without trees raises and returns no number.
C14_EmptyContainerGammaFails ==
    (ret.op = "container.get_gamma" /\ Len(container) = 0) =>
        (ret.status # "ok" /\ ret.value = <<>>)

\* C14 witness: get_gamma was called on the empty container and raised.
C14_Witness ==
    /\ ret.op = "container.get_gamma"
    /\ container = <<>>
    /\ ret.status = "ValueError"

\* The same shape: the geometry and the reference point of a primitive (its
\* pose and the attributes an update writes may change).
SameShape(a, b) ==
    /\ a.axes_length = b.axes_length
    /\ a.reference_point = b.reference_point

\* The children list of node p.
ChildrenOf(graph, p) == graph.nodes[p].indeces_children

\* C15: the node indices are the integers 0 .. n-1 in insertion order: the
\* graph's nodes are the indices of the component list, the root is index 0,
\* a shape handed to set_root or add_component is stored at the next index,
\* and no step puts a different shape at an index already taken.
C15_DenseInsertionOrderIndices ==
    [][/\ GraphNodes(tree'.graph) = Indices(tree'.obstacle_list)
       /\ root_idx(tree') = 0
       /\ Len(tree'.obstacle_list) >= Len(tree.obstacle_list)
       /\ \A k \in 1 .. Len(tree.obstacle_list) :
              SameShape(tree'.obstacle_list[k], tree.obstacle_list[k])
       /\ ret'.op \in {"set_root", "add_component"} =>
              /\ Len(tree'.obstacle_list) = Len(tree.obstacle_list) + 1
              /\ At(tree'.obstacle_list, Len(tree.obstacle_list)).axes_length
                     = ret'.obstacle[1].axes_length
              /\ Len(tree.obstacle_list) \in GraphNodes(tree'.graph)]_vars

\* C16: in every reachable state c is in p's children list exactly when the
\* graph has the edge p -> c, no children list holds a node twice, every
\* children list is in insertion (index) order, and the root's list starts
\* with the arch's legs 1 and 2.
C16_ChildrenMatchEdges ==
    LET graph == tree.graph
    IN  /\ \A p \in GraphNodes(graph), c \in GraphNodes(graph) :
              (\E i \in 1 .. Len(ChildrenOf(graph, p)) :
                    ChildrenOf(graph, p)[i] = c)
                  <=> <<p, c>> \in Edges(graph)
        /\ \A p \in GraphNodes(graph) :
              \A i, j \in 1 .. Len(ChildrenOf(graph, p)) :
                  i < j => ChildrenOf(graph, p)[i] < ChildrenOf(graph, p)[j]
        /\ Len(ChildrenOf(graph, 0)) >= 2
        /\ SubSeq(ChildrenOf(graph, 0), 1, 2) = <<1, 2>>

\* C17: no step changes a recorded local pose or the local_reference of a
\* node of the graph: both stay as they were stored at insertion.
C17_LocalPoseAndReferenceKept ==
    [][/\ Len(tree'.local_poses) >= Len(tree.local_poses)
       /\ \A k \in 1 .. Len(tree.local_poses) :
              tree'.local_poses[k] = tree.local_poses[k]
       /\ \A n \in GraphNodes(tree.graph) :
              /\ n \in GraphNodes(tree'.graph)
              /\ tree'.graph.nodes[n].local_reference
                     = tree.graph.nodes[n].local_reference]_vars

\* C17 witness: a component inserted by add_component, then a pose update
\* under a tree pose that is not the identity; its local pose and
\* local_reference are the ones it was inserted with.
C17_Witness ==
    /\ ret.op = "update_obstacles"
    /\ n_components(tree) = 4
    /\ tree.pose # ZeroPose
    /\ 3 \in GraphNodes(tree.graph)
    /\ tree.graph.nodes[3].local_reference = <<Vec(0, 1)>>
    /\ tree.local_poses[4] = MkPose(Vec(0, 4), 1)
    /\ tree.obstacle_list[4].shape # <<>>

\* C18: once update_obstacles has run on a tree (its components carry the
\* attribute the update writes), in every state a query can run in all
\* components' global poses are their local poses composed with one and the
\* same tree pose.
C18_QueriesSeeOneTreePose ==
    (\E k \in 1 .. Len(tree.obstacle_list) : tree.obstacle_list[k].shape # <<>>)
        => \E pose \in TreePoses :
              \A k \in 1 .. Len(tree.obstacle_list) :
                  tree.obstacle_list[k].pose =
                      TransformPoseFromRelative(pose, tree.local_poses[k])

\* C19: append puts the tree at the end of the sequence, raises len by one
\* and leaves the earlier entries alone; every iteration, whenever it is
\* started, yields the member trees from the first on in insertion order;
\* len is the number of member trees.
C19_AppendAtEndIterateInOrder ==
    [][/\ ret'.op = "container.append" =>
              /\ container_len(container') = container_len(container) + 1
              /\ SubSeq(container', 1, Len(container)) = container
              /\ container'[Len(container')] = ret'.obstacle[1]
       /\ ret'.op = "container.__iter__" =>
              /\ ret'.value[1] = container'
              /\ container' = container
       /\ ret'.op = "container.__len__" =>
              ret'.value[1] = Len(container')]_vars

\* C19 witness: an iteration over three trees, the first and the last
\* different, yielded after an earlier iteration or append.
C19_Witness ==
    /\ ret.op = "container.__iter__"
    /\ Len(ret.value[1]) = 3
    /\ ret.value[1][1] # ret.value[1][3]
    /\ ret.value[1][3] = container[3]

\* C20: after add_component calls with existing components as parents every
\* edge of the graph leads from a smaller index to a larger one.
C20_ParentBeforeChild ==
    \A e \in Edges(tree.graph) : e[1] < e[2]

\* C20 witness: five components, the last two children of components other
\* than the root.
C20_Witness ==
    /\ n_components(tree) = 5
    /\ <<2, 3>> \in Edges(tree.graph)
    /\ <<3, 4>> \in Edges(tree.graph)

\* C21: update_obstacles leaves the structure of the tree as it was: the
\* number of components, the order of the component list, the recorded
\* local poses, the nodes and edges of the graph and every children list.
C21_UpdateKeepsStructure ==
    [][ret'.op = "update_obstacles" =>
           /\ n_components(tree') = n_components(tree)
           /\ \A k \in 1 .. Len(tree.obstacle_list) :
                 SameShape(tree'.obstacle_list[k], tree.obstacle_list[k])
           /\ tree'.local_poses = tree.local_poses
           /\ GraphNodes(tree'.graph) = GraphNodes(tree.graph)
           /\ Edges(tree'.graph) = Edges(tree.graph)
           /\ \A n \in GraphNodes(tree.graph) :
                 ChildrenOf(tree'.graph, n) = ChildrenOf(tree.graph, n)
           /\ tree'.root_idx = tree.root_idx]_vars

\* C21 witness: update_obstacles has run on a moved tree of four components
\* whose fourth is a child of the second, and has written every component.
C21_Witness ==
    /\ ret.op = "update_obstacles"
    /\ n_components(tree) = 4
    /\ tree.pose = MkPose(Vec(2, 0), 1)
    /\ <<1, 3>> \in Edges(tree.graph)
    /\ ChildrenOf(tree.graph, 0) = <<1, 2>>
    /\ \A k \in 1 .. 4 : tree.obstacle_list[k].shape # <<>>

\* The queries in the global frame.
GlobalQueries ==
    {"get_gamma", "get_parent_idx", "get_component", "container.get_gamma",
     "container.is_in_free_space", "container.__len__", "container.__iter__"}

\* C22: a query in the global frame, on the tree or on the container,
\* leaves the tree (its pose, the components' poses, the local poses, the
\* graph) and the container's sequence as they were; the same query with
\* the same arguments asked again gives the same outcome.
C22_GlobalQueriesReadOnly ==
    [][ret'.op \in GlobalQueries =>
           /\ tree' = tree
           /\ container' = container
           /\ (/\ ret.op = ret'.op
               /\ ret.position = ret'.position
               /\ ret.index = ret'.index)
                  => (/\ ret'.status = ret.status
                      /\ ret'.value = ret.value
                      /\ ret'.calls = ret.calls)]_vars

\* C22 witness: a query of a moved and updated tree while the container
\* holds two trees.
C22_Witness ==
    /\ ret.op = "get_gamma"
    /\ ret.status = "ok"
    /\ tree.pose = MkPose(Vec(2, 0), 1)
    /\ tree.obstacle_list[1].pose = ZeroPose
    /\ tree.obstacle_list[3].shape # <<>>
    /\ Len(container) = 2

\* C23: is_in_free_space of a container without trees returns true at
\* every position, raises nothing and asks no tree.
C23_EmptyContainerIsFree ==
    (ret.op = "container.is_in_free_space" /\ Len(container) = 0)
        => /\ ret.status = "ok"
           /\ ret.value = <<TRUE>>
           /\ ret.calls = <<>>

\* C23 witness: the empty container has been asked at a position that lies
\* inside the root wall of a tree at the origin.
C23_Witness ==
    /\ ret.op = "container.is_in_free_space"
    /\ container = <<>>
    /\ ret.position = <<Vec(0, -2)>>
    /\ ret.value = <<TRUE>>
    /\ ~TreeIsInFreeSpace(BlockArchObstacle(WallWidth, AxesLength, ZeroPose),
                          Vec(0, -2))

=============================================================================
